---- MODULE Spec2Model ----
(***************************************************************************)
(* Model of cubes/expression/compiler.py: the ExpressionCompiler strategy  *)
(* (compile and its overridable hooks) and the _ExpressionSemantics        *)
(* handler the grammar parser calls at every rule reduction.               *)
(*                                                                         *)
(* Python values are tagged tuples, so that values of different Python     *)
(* types can live in one collection:                                       *)
(*   <<"None">>                 None                                       *)
(*   <<"Tok", s>>               a str token                                *)
(*   <<"List", seq>>            a list                                     *)
(*   <<"Literal", v>>, <<"Var", segs>>, <<"Call", ref, args>>,             *)
(*   <<"Un", op, x>>, <<"Bin", op, l, r>>     the ASTNode subclasses       *)
(*   <<"Obj", name, truth>>     a fragment of a subclass's own making      *)
(*   <<"Ctx", name, truth>>     a caller's context object                  *)
(*   <<"Raise", kind>>          a raised exception                         *)
(***************************************************************************)
EXTENDS Integers, Sequences, FiniteSets, TLC

VARIABLES
    pc,           \* "idle" | "parsing" | "done" | "failed": position of compile()
    selfContext,  \* ExpressionCompiler.context
    overridden,   \* TRUE when the instance is of a subclass overriding the hooks
    given,        \* the context argument of the running compile
    context,      \* _ExpressionSemantics.context of the running compile
    stack,        \* the parser's stack of reduced sub-results
    calls,        \* hook calls made during the running compile, in order
    result,       \* the value compile() returned
    error,        \* the exception that left compile()
    budget,       \* reductions the model still follows in the running compile
    bare,         \* references the atom rule saw without an argument list
    last          \* the last handler invocation: rule, payload, tag, outcome

vars == <<pc, selfContext, overridden, given, context, stack, calls, result, error,
          budget, bare, last>>

----------------------------------------------------------------------------
(* Bounds *)

MaxReductions == 5
MaxChain == 4
MaxArgs == 1
FoldBudget == 2

----------------------------------------------------------------------------
(* Python values *)

NoneV == <<"None">>
Tok(s) == <<"Tok", s>>
List(s) == <<"List", s>>
Raise(kind) == <<"Raise", kind>>

NodeTags == {"Literal", "Var", "Call", "Un", "Bin"}

IsASTNode(v) == v[1] \in NodeTags

IsRaise(v) == v[1] = "Raise"

IsList(v) == v[1] = "List"

Truthy(v) ==
    CASE v[1] = "None" -> FALSE
      [] v[1] = "Tok" -> v[2] # ""
      [] v[1] = "List" -> Len(v[2]) > 0
      [] v[1] \in {"Obj", "Ctx"} -> v[3]
      [] OTHER -> TRUE

CtxDefault == <<"Ctx", "default", TRUE>>
CtxEmpty == <<"Ctx", "empty", FALSE>>

ConstructorContexts == {CtxDefault}
CompileContexts == {NoneV, CtxEmpty}

ObjFalsy == <<"Obj", "zero", FALSE>>
ObjTruthy == <<"Obj", "wrapped", TRUE>>
HookError == Raise("HookError")

\* What an overriding hook can do: return a fragment of its own, or fail.
Outcomes == {ObjFalsy, ObjTruthy, HookError}

NumberTokens == {<<"7">>, <<"2", ".", "5">>}
StringTokens == {"s"}
References == {<<"x">>, <<"y", "z">>}
BinaryOps == {"+", "*"}
UnaryOps == {"-"}
Tags == {"binary", "unary", "other"}

----------------------------------------------------------------------------
(* Handler outcomes: the returned value, the raised exception, the hook    *)
(* calls made.                                                             *)

Ret(v) == [ret |-> v, raised |-> NoneV, calls |-> <<>>]

Raised(e) == [ret |-> NoneV, raised |-> e, calls |-> <<>>]

CallRec(hook, ctx, args, out) ==
    [hook |-> hook, ctx |-> ctx, args |-> args, out |-> out]

Invoke(hook, ctx, args, out) ==
    [ret |-> IF IsRaise(out) THEN NoneV ELSE out,
     raised |-> IF IsRaise(out) THEN out ELSE NoneV,
     calls |-> <<CallRec(hook, ctx, args, out)>>]

----------------------------------------------------------------------------
(* ExpressionCompiler hooks. `out` is what an override does when the       *)
(* instance is of a subclass; the base class builds the AST node.          *)

compile_literal(ctx, literal, out) ==
    IF overridden THEN out ELSE <<"Literal", literal>>

compile_variable(ctx, ref, out) ==
    IF overridden THEN out ELSE <<"Var", ref>>

compile_operator(ctx, operator, left, right, out) ==
    IF overridden THEN out ELSE <<"Bin", operator, left, right>>

compile_unary(ctx, operator, operand, out) ==
    IF overridden THEN out ELSE <<"Un", operator, operand>>

compile_function(ctx, function, args, out) ==
    IF overridden THEN out ELSE <<"Call", function, args>>

finalize(ctx, obj, out) ==
    IF overridden THEN out ELSE obj

----------------------------------------------------------------------------
(* _ExpressionSemantics *)

Digits == {"0", "1", "2", "3", "4", "5", "6", "7", "8", "9"}

DigitVal(c) ==
    CASE c = "0" -> 0 [] c = "1" -> 1 [] c = "2" -> 2 [] c = "3" -> 3
      [] c = "4" -> 4 [] c = "5" -> 5 [] c = "6" -> 6 [] c = "7" -> 7
      [] c = "8" -> 8 [] c = "9" -> 9

IsIntText(t) == Len(t) > 0 /\ \A i \in 1..Len(t) : t[i] \in Digits

RECURSIVE IntOf(_)
IntOf(t) ==
    IF Len(t) = 0 THEN 0
    ELSE 10 * IntOf(SubSeq(t, 1, Len(t) - 1)) + DigitVal(t[Len(t)])

IsFloatText(t) ==
    \E d \in 1..Len(t) :
        /\ t[d] = "."
        /\ Len(t) > 1
        /\ \A i \in 1..Len(t) : i # d => t[i] \in Digits

DotAt(t) == CHOOSE d \in 1..Len(t) : t[d] = "."

FloatOf(t) ==
    <<"float", IntOf(SubSeq(t, 1, DotAt(t) - 1)),
      SubSeq(t, DotAt(t) + 1, Len(t))>>

NUMBER(ast, ctx, out) ==
    IF IsIntText(ast)
    THEN Invoke("compile_literal", ctx, <<(<<"int", IntOf(ast)>>)>>,
                compile_literal(ctx, <<"int", IntOf(ast)>>, out))
    ELSE IF IsFloatText(ast)
    THEN Invoke("compile_literal", ctx, <<FloatOf(ast)>>,
                compile_literal(ctx, FloatOf(ast), out))
    ELSE Raised(Raise("ValueError"))

\* _ExpressionSemantics.STRING (STRING is a built-in set of TLA+)
String(ast, ctx, out) ==
    Invoke("compile_literal", ctx, <<(<<"str", ast>>)>>,
           compile_literal(ctx, <<"str", ast>>, out))

\* seq[start::2], start counted from 0 as in the source
RECURSIVE Slice2(_, _)
Slice2(s, start) ==
    IF start + 1 > Len(s) THEN <<>>
    ELSE <<s[start + 1]>> \o Slice2(s, start + 2)

Min(a, b) == IF a < b THEN a ELSE b

\* zip that pads the shorter sequence instead of stopping at it
ZipLongest(a, b) ==
    [i \in 1..(IF Len(a) > Len(b) THEN Len(a) ELSE Len(b)) |->
        <<IF i <= Len(a) THEN a[i] ELSE NoneV,
          IF i <= Len(b) THEN b[i] ELSE NoneV>>]

Zip(a, b) == [i \in 1..Min(Len(a), Len(b)) |-> <<a[i], b[i]>>]

\* the loop taking the pairs from the right end of the chain
RECURSIVE FoldReversed(_, _, _, _, _)
FoldReversed(ctx, left, pairs, outs, acc) ==
    IF Len(pairs) = 0
    THEN [ret |-> left, raised |-> NoneV, calls |-> acc]
    ELSE LET n == Len(pairs)
             op == pairs[n][1]
             right == pairs[n][2]
             out == compile_operator(ctx, op, left, right, outs[1])
             rec == CallRec("compile_operator", ctx, <<op, left, right>>, out)
         IN  IF IsRaise(out)
             THEN [ret |-> NoneV, raised |-> out, calls |-> Append(acc, rec)]
             ELSE FoldReversed(ctx, out, SubSeq(pairs, 1, n - 1), Tail(outs),
                               Append(acc, rec))

\* the loop catching a failed step and going on with None as its result
RECURSIVE FoldSwallow(_, _, _, _, _)
FoldSwallow(ctx, left, pairs, outs, acc) ==
    IF Len(pairs) = 0
    THEN [ret |-> left, raised |-> NoneV, calls |-> acc]
    ELSE LET op == pairs[1][1]
             right == pairs[1][2]
             out == compile_operator(ctx, op, left, right, outs[1])
             rec == CallRec("compile_operator", ctx, <<op, left, right>>, out)
         IN  FoldSwallow(ctx, IF IsRaise(out) THEN NoneV ELSE out,
                         Tail(pairs), Tail(outs), Append(acc, rec))

\* the for loop of the "binary" branch
RECURSIVE Fold(_, _, _, _, _)
Fold(ctx, left, pairs, outs, acc) ==
    IF Len(pairs) = 0
    THEN [ret |-> left, raised |-> NoneV, calls |-> acc]
    ELSE LET op == pairs[1][1]
             right == pairs[1][2]
             out == compile_operator(ctx, op, left, right, outs[1])
             rec == CallRec("compile_operator", ctx, <<op, left, right>>, out)
         IN  IF IsRaise(out)
             THEN [ret |-> NoneV, raised |-> out, calls |-> Append(acc, rec)]
             ELSE Fold(ctx, out, Tail(pairs), Tail(outs), Append(acc, rec))

\* ast[i] of a payload that may not be subscriptable
Subscriptable(ast, i) == IsList(ast) /\ i + 1 <= Len(ast[2])

SubscriptError(ast) ==
    IF IsList(ast) \/ ast[1] = "Tok" THEN Raise("IndexError")
    ELSE Raise("TypeError")

\* the fallback passing the payload through for a tag it does not know
_defaultLenient(ast, args, ctx, outs) ==
    IF Len(args) = 0 THEN Ret(ast)
    ELSE IF IsASTNode(ast) THEN Ret(ast)
    ELSE IF ~Subscriptable(ast, 1) THEN Raised(SubscriptError(ast))
    ELSE IF ~Truthy(ast[2][2]) THEN Ret(ast[2][1])
    ELSE IF args[1] = "binary"
    THEN Fold(ctx, ast[2][1],
              Zip(Slice2(ast[2][2][2], 0), Slice2(ast[2][2][2], 1)), outs, <<>>)
    ELSE IF args[1] = "unary"
    THEN Invoke("compile_unary", ctx, <<ast[2][1], ast[2][2]>>,
                compile_unary(ctx, ast[2][1], ast[2][2], outs[1]))
    ELSE Ret(ast)

_default(ast, args, ctx, outs) ==
    IF Len(args) = 0 THEN Ret(ast)
    ELSE IF IsASTNode(ast) THEN Ret(ast)
    ELSE IF ~Subscriptable(ast, 1) THEN Raised(SubscriptError(ast))
    ELSE IF ~Truthy(ast[2][2]) THEN Ret(ast[2][1])
    ELSE IF args[1] = "binary"
    THEN LET left == ast[2][1]
             ops == Slice2(ast[2][2][2], 0)
             rights == Slice2(ast[2][2][2], 1)
         IN  Fold(ctx, left, Zip(ops, rights), outs, <<>>)
    ELSE IF args[1] = "unary"
    THEN LET op == ast[2][1]
             operand == ast[2][2]
         IN  Invoke("compile_unary", ctx, <<op, operand>>,
                    compile_unary(ctx, op, operand, outs[1]))
    ELSE Raised(Raise("Exception"))

\* the atom rule building a node of its own for a parenthesized expression
atomParen(ast, ctx, out) ==
    IF ast.value # NoneV THEN Ret(ast.value)
    ELSE IF ast.ref # NoneV
    THEN IF Truthy(ast.args)
         THEN Invoke("compile_function", ctx, <<ast.ref, ast.args>>,
                     compile_function(ctx, ast.ref, ast.args, out))
         ELSE Ret(ast.ref)
    ELSE IF ast.expr # NoneV THEN Ret(<<"Un", Tok("()"), ast.expr>>)
    ELSE Raised(Raise("Exception"))

atom(ast, ctx, out) ==
    IF ast.value # NoneV THEN Ret(ast.value)
    ELSE IF ast.ref # NoneV
    THEN IF Truthy(ast.args)
         THEN Invoke("compile_function", ctx, <<ast.ref, ast.args>>,
                     compile_function(ctx, ast.ref, ast.args, out))
         ELSE Ret(ast.ref)
    ELSE IF ast.expr # NoneV THEN Ret(ast.expr)
    ELSE Raised(Raise("Exception"))

reference(ast) == Ret(<<"Var", ast>>)

----------------------------------------------------------------------------
(* The grammar parser: it keeps the sub-results reduced so far on a stack  *)
(* and hands the handler payloads built from them, children before         *)
(* parents.                                                                *)

ExprRules == {"atom", "default"}

Entry(rule, val) == [rule |-> rule, val |-> val]

Top(n) == SubSeq(stack, Len(stack) - n + 1, Len(stack))

Vals(entries) == [i \in 1..Len(entries) |-> entries[i].val]

AllExpr(entries) == \A i \in 1..Len(entries) : entries[i].rule \in ExprRules

AtomAst(value, ref, args, expr) ==
    [value |-> value, ref |-> ref, args |-> args, expr |-> expr]

\* op1, right1, op2, right2, ... of length k (odd k: a trailing operator)
Trailing(ops, rights, k) ==
    [i \in 1..k |-> IF i % 2 = 1 THEN Tok(ops[(i + 1) \div 2])
                    ELSE rights[i \div 2]]

\* what the overriding hooks do in the next n hook calls
OutSeqs(n) ==
    IF overridden THEN [1..n -> Outcomes] ELSE {[i \in 1..n |-> NoneV]}

NoLast == [rule |-> "none", ast |-> NoneV, args |-> <<>>, ret |-> NoneV,
           raised |-> NoneV, from |-> 0]

\* the parser after the handler returned h for a reduction of npop entries
Reduced(rule, ast, args, h, npop) ==
    /\ calls' = calls \o h.calls
    /\ budget' = budget - 1
    /\ last' = [rule |-> rule, ast |-> ast, args |-> args, ret |-> h.ret,
                raised |-> h.raised, from |-> Len(calls)]
    /\ IF h.raised # NoneV
       THEN /\ pc' = "failed"
            /\ error' = h.raised
            /\ stack' = <<>>
       ELSE /\ stack' = Append(SubSeq(stack, 1, Len(stack) - npop),
                               Entry(rule, h.ret))
            /\ UNCHANGED <<pc, error>>
    /\ UNCHANGED <<selfContext, overridden, given, context, result>>

CanReduce == pc = "parsing" /\ budget > 0

\* a matched NUMBER or STRING is the value of the atom being matched: the
\* atom rule is the next reduction
LiteralPending ==
    Len(stack) >= 1 /\ stack[Len(stack)].rule \in {"NUMBER", "STRING"}

CanReduceOther == CanReduce /\ ~LiteralPending

----------------------------------------------------------------------------
(* Actions *)

Init ==
    /\ pc = "idle"
    /\ selfContext \in ConstructorContexts
    /\ overridden \in BOOLEAN
    /\ given = NoneV
    /\ context = NoneV
    /\ stack = <<>>
    /\ calls = <<>>
    /\ result = NoneV
    /\ error = NoneV
    /\ budget = 0
    /\ bare = {}
    /\ last = NoLast

\* `context or self.context` in place of the test for None
EffectiveContextTruthy(ctx) == IF Truthy(ctx) THEN ctx ELSE selfContext

EffectiveContext(ctx) == IF ctx = NoneV THEN selfContext ELSE ctx

Compile(ctx) ==
    /\ pc \in {"idle", "done", "failed"}
    /\ pc' = "parsing"
    /\ given' = ctx
    /\ context' = EffectiveContext(ctx)
    /\ stack' = <<>>
    /\ calls' = <<>>
    /\ result' = NoneV
    /\ error' = NoneV
    /\ budget' = MaxReductions
    /\ bare' = {}
    /\ last' = NoLast
    /\ UNCHANGED <<selfContext, overridden>>

ReduceNUMBER(tok, outs) ==
    /\ CanReduceOther
    /\ Reduced("NUMBER", tok, <<>>, NUMBER(tok, context, outs[1]), 0)
    /\ UNCHANGED bare

ReduceSTRING(tok, outs) ==
    /\ CanReduceOther
    /\ Reduced("STRING", tok, <<>>, String(tok, context, outs[1]), 0)
    /\ UNCHANGED bare

ReduceReference(segs) ==
    /\ CanReduceOther
    /\ Reduced("reference", segs, <<>>, reference(segs), 0)
    /\ UNCHANGED bare

ReduceAtomLiteral ==
    /\ CanReduce
    /\ Len(stack) >= 1
    /\ stack[Len(stack)].rule \in {"NUMBER", "STRING"}
    /\ LET ast == AtomAst(stack[Len(stack)].val, NoneV, NoneV, NoneV)
       IN  Reduced("atom", ast, <<>>, atom(ast, context, NoneV), 1)
    /\ UNCHANGED bare

ReduceAtomReference ==
    /\ CanReduceOther
    /\ Len(stack) >= 1
    /\ stack[Len(stack)].rule = "reference"
    /\ LET ast == AtomAst(NoneV, stack[Len(stack)].val, NoneV, NoneV)
       IN  /\ Reduced("atom", ast, <<>>, atom(ast, context, NoneV), 1)
           /\ bare' = bare \cup {ast.ref[2]}

ReduceAtomCall(n, outs) ==
    /\ CanReduceOther
    /\ Len(stack) >= n + 1
    /\ stack[Len(stack) - n].rule = "reference"
    /\ AllExpr(Top(n))
    /\ LET ast == AtomAst(NoneV, stack[Len(stack) - n].val,
                          List(Vals(Top(n))), NoneV)
       IN  Reduced("atom", ast, <<>>, atom(ast, context, outs[1]), n + 1)
    /\ UNCHANGED bare

ReduceAtomExpr ==
    /\ CanReduceOther
    /\ Len(stack) >= 1
    /\ stack[Len(stack)].rule \in ExprRules
    /\ LET ast == AtomAst(NoneV, NoneV, NoneV, stack[Len(stack)].val)
       IN  Reduced("atom", ast, <<>>, atom(ast, context, NoneV), 1)
    /\ UNCHANGED bare

ReduceAtomEmpty ==
    /\ CanReduceOther
    /\ LET ast == AtomAst(NoneV, NoneV, NoneV, NoneV)
       IN  Reduced("atom", ast, <<>>, atom(ast, context, NoneV), 0)
    /\ UNCHANGED bare

\* a single-child production: the child alone, with or without a tag
ReduceDefaultChild(args) ==
    /\ CanReduceOther
    /\ Len(stack) >= 1
    /\ stack[Len(stack)].rule \in ExprRules
    /\ LET ast == stack[Len(stack)].val
       IN  Reduced("default", ast, args, _default(ast, args, context, <<>>), 1)
    /\ UNCHANGED bare

ReduceDefaultUnary(tag, op, outs) ==
    /\ CanReduceOther
    /\ Len(stack) >= 1
    /\ stack[Len(stack)].rule \in ExprRules
    /\ LET ast == List(<<Tok(op), stack[Len(stack)].val>>)
       IN  Reduced("default", ast, <<tag>>,
                   _default(ast, <<tag>>, context, outs), 1)
    /\ UNCHANGED bare

ReduceDefaultBinary(tag, k, ops, outs) ==
    /\ CanReduceOther
    /\ Len(stack) >= 1 + k \div 2
    /\ AllExpr(Top(1 + k \div 2))
    /\ LET operands == Vals(Top(1 + k \div 2))
           ast == List(<<operands[1],
                         List(Trailing(ops, Tail(operands), k))>>)
       IN  Reduced("default", ast, <<tag>>,
                   _default(ast, <<tag>>, context, outs), 1 + k \div 2)
    /\ UNCHANGED bare

\* the parser has matched the whole text: compile returns the root
Return ==
    /\ pc = "parsing"
    /\ Len(stack) = 1
    /\ stack[1].rule \in ExprRules
    /\ pc' = "done"
    /\ result' = stack[1].val
    /\ UNCHANGED <<selfContext, overridden, given, context, stack, calls, error,
                   budget, bare, last>>

Next ==
    \/ \E ctx \in CompileContexts : Compile(ctx)
    \/ \E tok \in NumberTokens, outs \in OutSeqs(1) : ReduceNUMBER(tok, outs)
    \/ \E tok \in StringTokens, outs \in OutSeqs(1) : ReduceSTRING(tok, outs)
    \/ \E segs \in References : ReduceReference(segs)
    \/ ReduceAtomLiteral
    \/ ReduceAtomReference
    \/ \E n \in 0..MaxArgs, outs \in OutSeqs(1) : ReduceAtomCall(n, outs)
    \/ ReduceAtomExpr
    \/ ReduceAtomEmpty
    \/ \E args \in {<<>>} \cup {<<t>> : t \in Tags} : ReduceDefaultChild(args)
    \/ \E tag \in {"unary", "other"}, op \in UnaryOps, outs \in OutSeqs(1) :
          ReduceDefaultUnary(tag, op, outs)
    \/ \E tag \in {"binary", "other"}, k \in 0..MaxChain :
          \E ops \in [1..((k + 1) \div 2) -> BinaryOps], outs \in OutSeqs(k \div 2) :
              ReduceDefaultBinary(tag, k, ops, outs)
    \/ Return

Spec == Init /\ [][Next]_vars

----------------------------------------------------------------------------
(* A parse picked up where the operands of a chain have been reduced: each *)
(* operand is an atom, a bare reference or a number, and the hook calls    *)
(* made for the numbers are in the log.                                    *)

MaxOperands == 1 + MaxChain \div 2

Returned == {o \in Outcomes : ~IsRaise(o)}

LeafChoices ==
    {[kind |-> "ref", tok |-> <<"x">>, out |-> NoneV]}
    \cup {[kind |-> "num", tok |-> <<"7">>, out |-> o] :
             o \in IF overridden THEN Returned ELSE {NoneV}}

Leaf(l, ctx) ==
    IF l.kind = "ref" THEN reference(l.tok) ELSE NUMBER(l.tok, ctx, l.out)

LeafAst(l, ctx) ==
    IF l.kind = "ref" THEN AtomAst(NoneV, Leaf(l, ctx).ret, NoneV, NoneV)
    ELSE AtomAst(Leaf(l, ctx).ret, NoneV, NoneV, NoneV)

RECURSIVE LeafCalls(_, _)
LeafCalls(leaves, ctx) ==
    IF Len(leaves) = 0 THEN <<>>
    ELSE Leaf(leaves[1], ctx).calls \o LeafCalls(Tail(leaves), ctx)

InitFold ==
    /\ pc = "parsing"
    /\ selfContext \in ConstructorContexts
    /\ overridden \in BOOLEAN
    /\ given = NoneV
    /\ context = EffectiveContext(given)
    /\ \E n \in 1..MaxOperands :
          \E leaves \in [1..n -> LeafChoices] :
              /\ stack = [i \in 1..n |->
                             Entry("atom",
                                   atom(LeafAst(leaves[i], context), context,
                                        NoneV).ret)]
              /\ calls = LeafCalls(leaves, context)
              /\ bare = {leaves[i].tok : i \in {j \in 1..n : leaves[j].kind = "ref"}}
              /\ last = [rule |-> "atom", ast |-> LeafAst(leaves[n], context),
                         args |-> <<>>,
                         ret |-> atom(LeafAst(leaves[n], context), context,
                                      NoneV).ret,
                         raised |-> NoneV, from |-> Len(calls)]
    /\ result = NoneV
    /\ error = NoneV
    /\ budget = FoldBudget

NextFold ==
    \/ \E args \in {<<>>} \cup {<<t>> : t \in Tags} : ReduceDefaultChild(args)
    \/ \E tag \in {"unary", "other"}, op \in UnaryOps, outs \in OutSeqs(1) :
          ReduceDefaultUnary(tag, op, outs)
    \/ \E tag \in {"binary", "other"}, k \in 0..MaxChain :
          \E ops \in [1..((k + 1) \div 2) -> BinaryOps], outs \in OutSeqs(k \div 2) :
              ReduceDefaultBinary(tag, k, ops, outs)
    \/ Return

SpecFold == InitFold /\ [][NextFold]_vars

----------------------------------------------------------------------------
(* Properties *)

\* the hook calls the last handler invocation made
LastCalls == SubSeq(calls, last.from + 1, Len(calls))

IsPair(ast) == IsList(ast) /\ Len(ast[2]) = 2

\* the last reduction went to the fallback with `tag` and a two-element payload
Generic(tag) ==
    last.rule = "default" /\ last.args = <<tag>> /\ IsPair(last.ast)

BinaryReduction == Generic("binary") /\ IsList(last.ast[2][2])

LeftOperand == last.ast[2][1]

Trail == last.ast[2][2][2]

NoHookFailed == \A i \in 1..Len(LastCalls) : ~IsRaise(LastCalls[i].out)

HookCalls(hook) == {i \in 1..Len(calls) : calls[i].hook = hook}

\* C1: when compile returns, finalize(context, root) has been called exactly
\* once, after the last reduction, and compile returns what finalize returned.
C1_FinalizeOnce ==
    pc = "done" =>
        /\ Cardinality(HookCalls("finalize")) = 1
        /\ calls[Len(calls)].hook = "finalize"
        /\ calls[Len(calls)].args = <<stack[1].val>>
        /\ result = calls[Len(calls)].out

\* C2: a "binary" reduction with payload (left, [op1, right1, ..., opN, rightN])
\* makes exactly N compile_operator calls in encounter order, call i taking
\* op_i, right_i and as left operand the original left (i = 1) or the value call
\* i-1 returned; the result is the value of call N, or left itself when N = 0.
C2_LeftFold ==
    (BinaryReduction /\ Len(Trail) % 2 = 0 /\ last.raised = NoneV) =>
        LET N == Len(Trail) \div 2
        IN  /\ Len(LastCalls) = N
            /\ \A i \in 1..N :
                  /\ LastCalls[i].hook = "compile_operator"
                  /\ LastCalls[i].args =
                        <<Trail[2 * i - 1],
                          IF i = 1 THEN LeftOperand ELSE LastCalls[i - 1].out,
                          Trail[2 * i]>>
            /\ last.ret = IF N = 0 THEN LeftOperand ELSE LastCalls[N].out

C2_Witness ==
    /\ BinaryReduction
    /\ ~overridden
    /\ Len(Trail) = 4
    /\ Len(LastCalls) = 2
    /\ last.ret = <<"Bin", Trail[3], <<"Bin", Trail[1], LeftOperand, Trail[2]>>,
                    Trail[4]>>

\* C3: an atom reduction with a reference payload calls compile_function exactly
\* once if and only if an argument list is attached, an empty list included,
\* with the attached list as args, and yields what compile_function returned;
\* only with no list attached is the reference passed through.
C3_FunctionCallIffArgsAttached ==
    (last.rule = "atom" /\ last.ast.value = NoneV /\ last.ast.ref # NoneV) =>
        IF last.ast.args # NoneV
        THEN /\ Len(LastCalls) = 1
             /\ LastCalls[1].hook = "compile_function"
             /\ LastCalls[1].args = <<last.ast.ref, last.ast.args>>
             /\ last.raised = NoneV => last.ret = LastCalls[1].out
        ELSE /\ Len(LastCalls) = 0
             /\ last.ret = last.ast.ref

\* the references a compile_variable override recording its argument has seen
Seen == {calls[i].args[1] : i \in HookCalls("compile_variable")}

\* C4: after compile returns, compile_variable has been called for every bare
\* reference of the text, so a recording override holds all their names.
C4_VariablesRecorded ==
    pc = "done" => bare \subseteq Seen

\* C5: every hook call of one compile gets the same effective context, the
\* one passed to compile unless it is None (a falsy one included) and else the
\* constructor's; it is not rebound while the parse runs, and the instance's
\* default context never changes.
C5_OneContext ==
    /\ [](\A i \in 1..Len(calls) :
             calls[i].ctx = IF given # NoneV THEN given ELSE selfContext)
    /\ [][(pc = "parsing" /\ pc' = "parsing") => context' = context]_vars
    /\ [][selfContext' = selfContext]_vars

C5_Witness ==
    /\ given = CtxEmpty
    /\ Len(calls) >= 2
    /\ \A i \in 1..Len(calls) : calls[i].ctx = CtxEmpty

\* C6: a hook failure is the last hook call of its compile: it leaves the
\* handler and compile unmodified, the later steps of the chain and every
\* enclosing reduction are not made, and compile returns nothing.
C6_FailurePropagates ==
    /\ \A i \in 1..Len(calls) :
          IsRaise(calls[i].out) =>
              /\ i = Len(calls)
              /\ pc = "failed"
              /\ error = calls[i].out
              /\ last.raised = calls[i].out
              /\ last.ret = NoneV
    /\ pc = "failed" => result = NoneV /\ stack = <<>>

C6_Witness ==
    /\ pc = "failed"
    /\ BinaryReduction
    /\ Len(Trail) = 4
    /\ Len(LastCalls) = 1
    /\ error = HookError

\* C7: an atom reduction carrying only a sub-expression yields that compiled
\* sub-expression itself, calls no hook and builds no node.
C7_ParenthesesTransparent ==
    (last.rule = "atom" /\ last.ast.value = NoneV /\ last.ast.ref = NoneV
        /\ last.ast.expr # NoneV) =>
        /\ last.ret = last.ast.expr
        /\ last.raised = NoneV
        /\ Len(LastCalls) = 0
        /\ pc = "parsing" => stack[Len(stack)].val = last.ast.expr
        /\ pc = "done" => result = last.ast.expr

C7_Witness ==
    /\ pc = "done"
    /\ last.rule = "atom"
    /\ last.ast.value = NoneV
    /\ last.ast.ref = NoneV
    /\ last.ast.expr = <<"Var", <<"x">>>>
    /\ result = <<"Var", <<"x">>>>

\* C8 as stated: the fallback called with a tag that is neither "binary" nor
\* "unary" fails with an internal error and returns nothing, whatever the
\* payload.
C8_UnknownTagAlwaysFails ==
    (last.rule = "default" /\ Len(last.args) = 1
        /\ last.args[1] \notin {"binary", "unary"}) =>
        /\ last.raised = Raise("Exception")
        /\ last.ret = NoneV

\* C8 amended: the fallback called with a tag that is neither "binary" nor
\* "unary" fails with an internal error, returns nothing and calls no hook when
\* the payload is a pair, not an AST node, whose second element is truthy; an
\* AST node payload is returned as it is, and of a pair whose second element is
\* empty the first element is returned.
C8_UnknownTagFailsOnPair ==
    (last.rule = "default" /\ Len(last.args) = 1
        /\ last.args[1] \notin {"binary", "unary"}) =>
        /\ (IsPair(last.ast) /\ Truthy(last.ast[2][2])) =>
              /\ last.raised = Raise("Exception")
              /\ last.ret = NoneV
              /\ Len(LastCalls) = 0
              /\ pc = "failed"
        /\ IsASTNode(last.ast) =>
              last.raised = NoneV /\ last.ret = last.ast
        /\ (IsPair(last.ast) /\ ~Truthy(last.ast[2][2])) =>
              last.raised = NoneV /\ last.ret = last.ast[2][1]

C8_Witness ==
    /\ Generic("other")
    /\ Truthy(last.ast[2][2])
    /\ pc = "failed"
    /\ error = Raise("Exception")

\* C9: a "unary" reduction with payload (operator, operand) calls
\* compile_unary(context, operator, operand) exactly once and yields its
\* result, for a falsy operand fragment too; the bare operator is not returned.
C9_UnaryCalledOnce ==
    Generic("unary") =>
        /\ Len(LastCalls) = 1
        /\ LastCalls[1].hook = "compile_unary"
        /\ LastCalls[1].args = <<last.ast[2][1], last.ast[2][2]>>
        /\ last.raised = NoneV => last.ret = LastCalls[1].out

\* C10: a "binary" reduction whose trailing list has k >= 1 elements makes
\* exactly k \div 2 compile_operator calls, call i pairing elements 2i-1 and 2i;
\* an odd k drops the dangling operator without an error, and k = 1 makes no
\* call and yields left.
C10_PairsOnly ==
    (BinaryReduction /\ Len(Trail) >= 1 /\ NoHookFailed) =>
        /\ Len(LastCalls) = Len(Trail) \div 2
        /\ \A i \in 1..Len(LastCalls) :
              /\ LastCalls[i].args[1] = Trail[2 * i - 1]
              /\ LastCalls[i].args[3] = Trail[2 * i]
        /\ last.raised = NoneV
        /\ error = NoneV
        /\ pc # "failed"
        /\ Len(Trail) = 1 => last.ret = LeftOperand

C10_Witness ==
    /\ BinaryReduction
    /\ Len(Trail) = 3
    /\ Len(LastCalls) = 1
    /\ last.raised = NoneV
    /\ LastCalls[1].args = <<Trail[1], LeftOperand, Trail[2]>>

====
